---- MODULE Spec2Model ----
\* Model of functions/api/upload.js: the upload endpoint onRequestPost with its
\* helpers ensureRepo and uploadFile, run by concurrent requests against one
\* git host and one webhook.  Every fetch of the source is one step of a
\* request; the host answers it from its own state, or with an error status,
\* or the call fails in transport.
EXTENDS Integers, Sequences, FiniteSets, TLC

\* ---------------------------------------------------------------- bounds
\* A file that exists before the first request has a revision in 1..MaxRev.
MaxRev == 1

\* ---------------------------------------------------------------- inputs
Requests == {1, 2}

\* The form fields of a request, "" for a field that is absent or empty.
FormInputs ==
  {[class |-> "XI", filename |-> "q1.pdf", content |-> "Yg==", type |-> "answer",
    date |-> "2024-05-01"],
   [class |-> "xi", filename |-> "q1.pdf", content |-> "%%%", type |-> "answer",
    date |-> ""],
   [class |-> "xi", filename |-> "q1.pdf", content |-> "Yg==", type |-> "",
    date |-> ""],
   [class |-> "XI", filename |-> "q1.pdf", content |-> "Yg==", type |-> "question",
    date |-> "2024-05-01"],
   [class |-> "XI", filename |-> "q2.pdf", content |-> "Yg==", type |-> "Answer",
    date |-> "2024-05-01"]}

\* String.prototype.toLowerCase / toUpperCase on the class field
toLowerCase(s) == IF s = "XI" THEN "xi" ELSE s
toUpperCase(s) == IF s = "xi" THEN "XI" ELSE s

\* new Date().toISOString().split('T')[0]
Today == "2026-11-03"

\* atob: the decoded text of a base64 string; "throw" is InvalidCharacterError
atob(c) == CASE c = "YQ==" -> "a"
             [] c = "Yg==" -> "b"
             [] OTHER -> "throw"

GITHUB_USER == "iitjeelf"

\* ---------------------------------------------------------------- paths
answerPath(date) == <<"answers/answer-key-", date, ".txt">>
questionPath(filename) == <<"questions/", filename>>
NoPath == <<>>

Dates == {IF f.date = "" THEN Today ELSE f.date : f \in FormInputs}
Paths == {answerPath(d) : d \in Dates} \cup
         {questionPath(f.filename) : f \in FormInputs}
RepoNames == {toLowerCase(f.class) : f \in FormInputs}

\* ---------------------------------------------------------------- state
VARIABLES
  GITHUB_TOKEN,      \* context.env.GITHUB_TOKEN is set
  GOOGLE_SCRIPT_URL, \* context.env.GOOGLE_SCRIPT_URL is set
  repos,             \* host: names of the repositories of GITHUB_USER
  files,             \* host: [repo, path] -> revision of the file, 0 = absent
  stored,            \* host: [repo, path] -> content of the file, "" = absent
  pc,                \* position of each request in onRequestPost
  input,             \* the form fields each request was sent with
  form,              \* the fields read from formData, after defaulting
  filePath,          \* local filePath of onRequestPost
  sha,               \* local sha of uploadFile, 0 = null
  githubResult,      \* local githubResult
  driveResult,       \* local driveResult, "null" = null
  responses,         \* the Responses each request has returned
  calls,             \* the fetches each request has issued, in order
  thrown,            \* message of the exception that reached the catch of line 88
  startedAfter       \* the requests that had responded when this one started

vars == <<GITHUB_TOKEN, GOOGLE_SCRIPT_URL, repos, files, stored, pc, input, form,
          filePath, sha, githubResult, driveResult, responses, calls, thrown,
          startedAfter>>

hostVars == <<repos, files, stored>>
envVars == <<GITHUB_TOKEN, GOOGLE_SCRIPT_URL>>

NoInput == [class |-> "", filename |-> "", content |-> "", type |-> "", date |-> ""]
NoForm == [className |-> "", filename |-> "", content |-> "", type |-> "", date |-> ""]
NoResult == [url |-> NoPath, sha |-> 0, path |-> NoPath]
NoMessage == <<>>

\* ---------------------------------------------------------------- responses
\* successResponse(data): status 200 (the default), {success:true, ...data}
successResponse(data) ==
  [status |-> 200, success |-> TRUE, message |-> data.message,
   github |-> data.github, drive |-> data.drive]

\* errorResponse(message): status 500, {success:false, message || 'Upload failed'}
errorResponse(message) ==
  [status |-> 500, success |-> FALSE,
   message |-> IF message = NoMessage THEN <<"Upload failed">> ELSE message,
   github |-> NoResult, drive |-> "null"]

\* the return of a Response ends the request
Respond(r, resp) ==
  /\ responses' = [responses EXCEPT ![r] = Append(@, resp)]
  /\ pc' = [pc EXCEPT ![r] = "done"]

catchError_generic(message) == errorResponse(NoMessage)

\* Lines 88-92: catch (error) { return errorResponse(error.message) }
catchError(message) == errorResponse(message)

\* an exception with this message leaves the try block of onRequestPost
Throw(r, message) ==
  /\ thrown' = [thrown EXCEPT ![r] = message]
  /\ Respond(r, catchError(message))

\* a fetch of request r is recorded when it is issued, with the state of the
\* host it met
Call(r, op, path, putSha, reply) ==
  calls' = [calls EXCEPT ![r] = Append(@,
        [op |-> op, path |-> path, sha |-> putSha, kind |-> reply.kind,
         status |-> reply.status, body |-> reply.body, message |-> reply.message,
         rev |-> IF path \in Paths THEN files[form[r].className, path] ELSE 0,
         repo |-> form[r].className \in repos])]

\* response.ok
Ok(reply) == reply.kind # "throw" /\ reply.status \in 200..299

\* the ways a call can fail whatever the state of the host: a transport error
\* (fetch rejects) or an error status of the host (rate limit, outage)
Failing ==
  {[kind |-> "throw", status |-> 0, body |-> "", message |-> "fetch failed"],
   [kind |-> "fault", status |-> 500, body |-> "json", message |-> "Server Error"]}

\* an error status whose body is not JSON (the error page of a gateway)
BadGateway == [kind |-> "fault", status |-> 502, body |-> "html", message |-> ""]

\* the answer the host gives from its state; its body is JSON
HostReply(status, message) ==
  [kind |-> "host", status |-> status, body |-> "json", message |-> message]

\* The host's answer to the GET of a repository
HostRepoReply(name) ==
  HostReply(IF name \in repos THEN 200 ELSE 404, "Not Found")

\* The host's answer to the creation of a repository: a name in use is
\* refused with a message
HostCreateReply(name) ==
  IF name \in repos
  THEN HostReply(422, "name already exists on this account")
  ELSE HostReply(201, "")

\* The revision the host holds for a path, 0 when it holds none
HostRevision(repo, path) ==
  IF repo \in repos THEN files[repo, path] ELSE 0

\* The host's answer to the GET of a file
HostFileReply(repo, path) ==
  HostReply(IF HostRevision(repo, path) > 0 THEN 200 ELSE 404, "Not Found")

\* The host's rule for a PUT of a file: a new file takes no revision, an
\* existing file takes its current revision only.
HostPutStatus(repo, path, putSha) ==
  IF repo \notin repos THEN 404
  ELSE IF files[repo, path] = 0 THEN (IF putSha = 0 THEN 201 ELSE 422)
  ELSE IF putSha = 0 THEN 422
  ELSE IF putSha = files[repo, path] THEN 200
  ELSE 409

\* response.json() of a body that is not JSON throws a SyntaxError
JsonError == <<"Unexpected token < in JSON at position 0">>

\* ---------------------------------------------------------------- Init
Init ==
  /\ GITHUB_TOKEN \in BOOLEAN
  /\ GOOGLE_SCRIPT_URL \in BOOLEAN
  /\ repos \in SUBSET RepoNames
  /\ \E present \in {{}, Paths}, rev \in 1..MaxRev :
       /\ files = [n \in RepoNames, p \in Paths |->
                     IF n \in repos /\ p \in present THEN rev ELSE 0]
       /\ stored = [n \in RepoNames, p \in Paths |->
                     IF n \in repos /\ p \in present THEN "YQ==" ELSE ""]
  /\ pc = [r \in Requests |-> "idle"]
  /\ input = [r \in Requests |-> NoInput]
  /\ form = [r \in Requests |-> NoForm]
  /\ filePath = [r \in Requests |-> NoPath]
  /\ sha = [r \in Requests |-> 0]
  /\ githubResult = [r \in Requests |-> NoResult]
  /\ driveResult = [r \in Requests |-> "null"]
  /\ responses = [r \in Requests |-> <<>>]
  /\ calls = [r \in Requests |-> <<>>]
  /\ thrown = [r \in Requests |-> NoMessage]
  /\ startedAfter = [r \in Requests |-> {}]

\* ---------------------------------------------------------------- onRequestPost
tokenMissing_never == FALSE

\* Line 8: if (!GITHUB_TOKEN)
tokenMissing == ~GITHUB_TOKEN

\* Lines 13-17: the fields of the form, with the defaults of type and date
readForm(f) ==
  [className |-> toLowerCase(f.class), filename |-> f.filename,
   content |-> f.content,
   type |-> IF f.type = "" THEN "question" ELSE f.type,
   date |-> IF f.date = "" THEN Today ELSE f.date]

\* Lines 3-20: the token check and the reading of the form.  formData() may
\* reject, and formData.get('class') is null when the field is absent, which
\* makes .toLowerCase() throw; both land in the catch of line 88.
onRequestPostStart(r) ==
  /\ pc[r] = "idle"
  /\ startedAfter' = [startedAfter EXCEPT ![r] = {q \in Requests : pc[q] = "done"}]
  /\ UNCHANGED <<envVars, hostVars, filePath, sha, githubResult, driveResult,
                 calls>>
  /\ IF tokenMissing
     THEN /\ Respond(r, errorResponse(<<"No GitHub token">>))
          /\ UNCHANGED <<input, form, thrown>>
     ELSE \/ \E e \in {<<"Parsing a Body as FormData failed">>,
                       <<"Cannot read properties of null (reading 'toLowerCase')">>} :
               /\ Throw(r, e)
               /\ UNCHANGED <<input, form>>
          \/ \E f \in FormInputs :
               /\ input' = [input EXCEPT ![r] = f]
               /\ form' = [form EXCEPT ![r] = readForm(f)]
               /\ pc' = [pc EXCEPT ![r] = "repoCheck"]
               /\ UNCHANGED <<responses, thrown>>

derivePath_anyCase(f) ==
  IF f.type \in {"answer", "Answer"} THEN answerPath(f.date)
  ELSE questionPath(f.filename)

\* Lines 30-32, 65-67: the path of the file, by the type of the upload
derivePath(f) ==
  IF f.type = "answer" THEN answerPath(f.date) ELSE questionPath(f.filename)

\* ensureRepo has returned true: onRequestPost goes on to uploadFile
ensureRepoReturn(r) ==
  /\ filePath' = [filePath EXCEPT ![r] = derivePath(form[r])]
  /\ pc' = [pc EXCEPT ![r] = "fileCheck"]
  /\ UNCHANGED <<responses, thrown>>

\* ---------------------------------------------------------------- ensureRepo
repoExists_unless404(reply) == reply.kind # "throw" /\ reply.status # 404

repoExists_never(reply) == FALSE

repoExists_unlessThrown(reply) == reply.kind # "throw"

\* Lines 138-146: if (checkResponse.ok) return true; a rejected fetch is
\* caught and falls through to the creation like a non-success status
repoExists(reply) == Ok(reply)

\* Lines 137-146: GET the repository; a transport error is swallowed.
ensureRepoCheck(r) ==
  /\ pc[r] = "repoCheck"
  /\ \E reply \in Failing \cup {HostRepoReply(form[r].className)} :
       /\ Call(r, "repoCheck", NoPath, 0, reply)
       /\ IF repoExists(reply)
          THEN ensureRepoReturn(r)
          ELSE /\ pc' = [pc EXCEPT ![r] = "repoCreate"]
               /\ UNCHANGED <<filePath, responses, thrown>>
  /\ UNCHANGED <<envVars, hostVars, input, form, sha, githubResult, driveResult,
                 startedAfter>>

createError_noDetail(repoName, reply) == <<"Failed to create repo ", repoName>>

\* Lines 161-164: the Error thrown for a non-success answer to the creation;
\* createResponse.json() throws instead when the body is not JSON
createError(repoName, reply) ==
  IF reply.body = "json"
  THEN <<"Failed to create repo ", repoName, ": ", reply.message>>
  ELSE JsonError

\* Lines 148-167: POST the creation; a non-success answer throws with the
\* message of the host.
ensureRepoCreate(r) ==
  /\ pc[r] = "repoCreate"
  /\ LET name == form[r].className IN
     \E reply \in Failing \cup {BadGateway} \cup {HostCreateReply(name)} :
       /\ Call(r, "repoCreate", NoPath, 0, reply)
       /\ repos' = IF Ok(reply) THEN repos \cup {name} ELSE repos
       /\ IF reply.kind = "throw"
          THEN /\ Throw(r, <<reply.message>>)
               /\ UNCHANGED filePath
          ELSE IF Ok(reply)
          THEN ensureRepoReturn(r)
          ELSE /\ Throw(r, createError(name, reply))
               /\ UNCHANGED filePath
  /\ UNCHANGED <<envVars, files, stored, input, form, sha, githubResult,
                 driveResult, startedAfter>>

\* ---------------------------------------------------------------- uploadFile
shaOfCheck_never(reply, rev) == 0

\* Lines 177-192: sha is taken from a success answer only; a 404, any other
\* status and a transport error all leave it null
shaOfCheck(reply, rev) == IF Ok(reply) THEN rev ELSE 0

afterFileCheck_retry(reply) == IF Ok(reply) THEN "filePut" ELSE "fileCheck"

afterFileCheck_abort(reply) == IF reply.kind = "throw" THEN "done" ELSE "filePut"

\* Lines 178-194: whatever the GET gave (success, 404, another status, a
\* rejected fetch caught at line 190), uploadFile goes on to the PUT
afterFileCheck(reply) == "filePut"

\* Lines 176-192: GET the file.
uploadFileCheck(r) ==
  /\ pc[r] = "fileCheck"
  /\ LET rev == HostRevision(form[r].className, filePath[r]) IN
     \E reply \in Failing \cup {HostFileReply(form[r].className, filePath[r])} :
       /\ Call(r, "fileCheck", filePath[r], 0, reply)
       /\ sha' = [sha EXCEPT ![r] = shaOfCheck(reply, rev)]
       /\ pc' = [pc EXCEPT ![r] = afterFileCheck(reply)]
  /\ UNCHANGED <<envVars, hostVars, input, form, filePath, githubResult,
                 driveResult, responses, thrown, startedAfter>>

\* Lines 80-86: the success Response
returnSuccess(r, github, drive) ==
  /\ Respond(r, successResponse(
       [message |-> <<"Uploaded to ", toUpperCase(form[r].className)>>,
        github |-> github, drive |-> drive]))
  /\ UNCHANGED thrown

sendsToDrive_anyType(f) == GOOGLE_SCRIPT_URL

sendsToDrive_noUrl(f) == f.type = "answer"

\* Lines 30, 46: the webhook is called for an answer when its URL is set
sendsToDrive(f) == f.type = "answer" /\ GOOGLE_SCRIPT_URL

uploadOk_always(reply) == TRUE

uploadOk_unlessThrown(reply) == reply.kind # "throw"

\* Lines 206-215: a rejected fetch leaves uploadFile, and so does a
\* non-success answer: if (!uploadResponse.ok) throw
uploadOk(reply) == Ok(reply)

\* Lines 194-223, then 46 or 80: PUT the file, with sha when it is set.  A
\* non-success answer throws 'GitHub API error: status'.  After a success the
\* answer upload with a webhook URL goes on to the webhook, every other
\* upload returns the success Response.
uploadFilePut(r) ==
  /\ pc[r] = "filePut"
  /\ LET repo == form[r].className
         path == filePath[r]
         putSha == sha[r]
     IN
     \E reply \in Failing \cup
         {HostReply(HostPutStatus(repo, path, putSha), "")} :
       LET result == [url |-> <<"https://github.com/", GITHUB_USER, "/", repo,
                               "/blob/main/">> \o path,
                      sha |-> files[repo, path] + 1, path |-> path] IN
       /\ Call(r, "filePut", path, putSha, reply)
       /\ IF Ok(reply)
          THEN /\ files' = [files EXCEPT ![repo, path] = @ + 1]
               /\ stored' = [stored EXCEPT ![repo, path] = form[r].content]
          ELSE UNCHANGED <<files, stored>>
       /\ IF uploadOk(reply)
          THEN /\ githubResult' = [githubResult EXCEPT ![r] = result]
               /\ IF sendsToDrive(form[r])
                  THEN /\ pc' = [pc EXCEPT ![r] = "webhook"]
                       /\ UNCHANGED <<responses, thrown>>
                  ELSE returnSuccess(r, result, driveResult[r])
          ELSE /\ Throw(r, IF reply.kind = "throw" THEN <<reply.message>>
                           ELSE <<"GitHub API error: ", ToString(reply.status)>>)
               /\ UNCHANGED githubResult
  /\ UNCHANGED <<envVars, repos, input, form, filePath, sha, driveResult,
                 startedAfter>>

\* ---------------------------------------------------------------- webhook
\* the answers of the webhook: any JSON
WebhookReplies ==
  {[kind |-> "host", status |-> 200, body |-> "json", message |-> "{success:true}"],
   [kind |-> "host", status |-> 200, body |-> "json", message |-> "null"]}

\* driveResponse.json() of a JSON body
driveJson(reply) ==
  IF reply.kind = "fault" THEN "{message:Server Error}" ELSE reply.message

webhookCaught_rethrown(r) ==
  /\ Throw(r, <<"fetch failed">>)
  /\ UNCHANGED driveResult

\* Lines 60-62, 80-86: catch (driveError) logs and goes on to the success
\* Response; driveResult was not assigned
webhookCaught(r) ==
  /\ returnSuccess(r, githubResult[r], driveResult[r])
  /\ UNCHANGED driveResult

\* Lines 46-63, 80-86: atob(content) is evaluated before fetch is called, so
\* a content that is not base64 throws before any POST; a POST that throws or
\* whose body is not JSON throws as well.  driveResult is assigned only by a
\* successful json().  The status of the answer is not looked at.
forwardToWebhook(r) ==
  /\ pc[r] = "webhook"
  /\ IF atob(form[r].content) = "throw"
     THEN /\ webhookCaught(r)
          /\ UNCHANGED calls
     ELSE \E reply \in Failing \cup {BadGateway} \cup WebhookReplies :
            /\ Call(r, "webhook", NoPath, 0, reply)
            /\ IF reply.kind = "throw" \/ reply.body # "json"
               THEN webhookCaught(r)
               ELSE /\ driveResult' = [driveResult EXCEPT ![r] = driveJson(reply)]
                    /\ returnSuccess(r, githubResult[r], driveJson(reply))
  /\ UNCHANGED <<envVars, hostVars, input, form, filePath, sha, githubResult,
                 startedAfter>>

\* ---------------------------------------------------------------- specification
Next ==
  \/ \E r \in Requests : onRequestPostStart(r)
  \/ \E r \in Requests : ensureRepoCheck(r)
  \/ \E r \in Requests : ensureRepoCreate(r)
  \/ \E r \in Requests : uploadFileCheck(r)
  \/ \E r \in Requests : uploadFilePut(r)
  \/ \E r \in Requests : forwardToWebhook(r)

Spec == Init /\ [][Next]_vars

\* ---------------------------------------------------------------- helpers
Done(r) == pc[r] = "done"
Response(r) == responses[r][1]
CallsOf(r, op) == {i \in DOMAIN calls[r] : calls[r][i].op = op}
Succeeded(r) == Done(r) /\ Response(r).status = 200 /\ Response(r).success
Failed(r) == Done(r) /\ Response(r).status = 500 /\ ~Response(r).success

\* ---------------------------------------------------------------- claims
\* C1: when the access token is not configured, a request that has run has
\* ended with the failure response (status 500, success false), and no
\* request has issued any fetch.
C1_NoTokenNoCalls ==
  ~GITHUB_TOKEN =>
    \A r \in Requests :
      /\ calls[r] = <<>>
      /\ pc[r] \in {"idle", "done"}
      /\ Done(r) => Len(responses[r]) = 1 /\ Failed(r)

C1_Witness == \E r \in Requests : ~GITHUB_TOKEN /\ Failed(r) /\ calls[r] = <<>>

\* the PUT of the file of request r was accepted by the host
PutAccepted(r) ==
  \E i \in CallsOf(r, "filePut") : calls[r][i].status \in 200..299

\* the webhook step of request r failed: decoding the content threw, the
\* POST threw, or the body of the answer was not JSON
WebhookFailed(r) ==
  \/ atob(form[r].content) = "throw"
  \/ \E i \in CallsOf(r, "webhook") :
       calls[r][i].kind = "throw" \/ calls[r][i].body # "json"

\* C2: an answer upload with a webhook URL whose file upsert succeeded and
\* whose webhook step failed ends with the success response (status 200,
\* success true) and a null drive field.
C2_WebhookFailureIsSwallowed ==
  \A r \in Requests :
    (/\ Done(r)
     /\ form[r].type = "answer"
     /\ GOOGLE_SCRIPT_URL
     /\ PutAccepted(r)
     /\ WebhookFailed(r))
    => /\ Len(responses[r]) = 1
       /\ Succeeded(r)
       /\ Response(r).drive = "null"

C2_Witness ==
  \E r \in Requests :
    /\ Succeeded(r) /\ form[r].type = "answer" /\ GOOGLE_SCRIPT_URL
    /\ \E i \in CallsOf(r, "webhook") : calls[r][i].kind = "throw"
    /\ Response(r).drive = "null"

\* C3: every PUT of uploadFile that reaches the host is accepted, whatever the
\* state of the file before the call (absent, or present with any revision),
\* and uploadFile returns: the request goes on past the upsert.
C3_UploadIsUpsert ==
  \A r \in Requests :
    \A i \in CallsOf(r, "filePut") :
      calls[r][i].kind = "host" =>
        /\ calls[r][i].status \in 200..299
        /\ githubResult[r].path = calls[r][i].path
        /\ thrown[r] = NoMessage

\* C4: the PUT carries a revisionId exactly when the file existed at the path
\* when uploadFile read it, and then it is the revision the file had.
C4_ShaIffFileExists ==
  \A r \in Requests :
    \A i \in CallsOf(r, "filePut") :
      \A j \in CallsOf(r, "fileCheck") :
        /\ calls[r][i].sha # 0 <=> calls[r][j].rev # 0
        /\ calls[r][j].rev # 0 => calls[r][i].sha = calls[r][j].rev

\* every call of request r to the git host was answered by the host from its
\* state: no transport error, no error status of an outage
NoFailure(r) ==
  /\ form[r] # NoForm
  /\ \A i \in DOMAIN calls[r] :
       calls[r][i].op # "webhook" => calls[r][i].kind = "host"

C6_CreateFailureSurfacesHostMessage ==
  \A r \in Requests :
    \A i \in CallsOf(r, "repoCreate") :
      (calls[r][i].kind # "throw" /\ calls[r][i].status \notin 200..299)
      => /\ Len(responses[r]) = 1
         /\ Failed(r)
         /\ calls[r][i].body = "json" =>
              \E k \in DOMAIN Response(r).message :
                Response(r).message[k] = calls[r][i].message

C6_Witness ==
  \E r \in Requests :
    /\ Failed(r)
    /\ \E i \in CallsOf(r, "repoCreate") : calls[r][i].status = 422
    /\ Response(r).message =
         <<"Failed to create repo ", "xi", ": ", "name already exists on this account">>

\* C7: ensureRepo invoked for a repository that exists does not fail the
\* request, and once ensureRepo has returned the repository exists.
C7_EnsureRepoIdempotent ==
  \A r \in Requests :
    /\ \A i \in CallsOf(r, "repoCheck") :
         calls[r][i].repo => ~(Done(r) /\ CallsOf(r, "fileCheck") = {})
    /\ (pc[r] \in {"fileCheck", "filePut", "webhook"} \/ CallsOf(r, "fileCheck") # {})
         => form[r].className \in repos

\* C8: with a token configured a request that has ended has returned exactly
\* one response, the success envelope (200, success true) or the failure
\* envelope (500, success false), and none before it ended; an exception that
\* leaves form parsing, ensureRepo or uploadFile gives the failure envelope
\* with the message of that exception.
C8_OneResponse ==
  GITHUB_TOKEN =>
    \A r \in Requests :
      /\ ~Done(r) => responses[r] = <<>> /\ thrown[r] = NoMessage
      /\ Done(r) => Len(responses[r]) = 1 /\ (Succeeded(r) \/ Failed(r))
      /\ thrown[r] # NoMessage => Failed(r) /\ Response(r).message = thrown[r]
      /\ (Done(r) /\ thrown[r] = NoMessage) => Succeeded(r)

C8_Witness ==
  \E r \in Requests :
    /\ GITHUB_TOKEN /\ Failed(r)
    /\ thrown[r] = <<"GitHub API error: ", "422">>
    /\ Response(r).message = <<"GitHub API error: ", "422">>

\* C9: in a success response the drive field is non-null only for an answer
\* upload with a webhook URL configured whose POST returned and whose body
\* parsed as JSON; without a webhook URL it is null.
C9_DriveOnlyFromWebhook ==
  \A r \in Requests :
    Succeeded(r) =>
      /\ Response(r).drive # "null" =>
           /\ input[r].type = "answer"
           /\ GOOGLE_SCRIPT_URL
           /\ \E i \in CallsOf(r, "webhook") :
                calls[r][i].kind # "throw" /\ calls[r][i].body = "json"
      /\ ~GOOGLE_SCRIPT_URL => Response(r).drive = "null"

C9_Witness ==
  \E r \in Requests :
    /\ Succeeded(r) /\ input[r].type = "answer" /\ GOOGLE_SCRIPT_URL
    /\ Response(r).drive = "{success:true}"

\* the path the claim states for the fields a request was sent with
StatedPath(f) ==
  IF f.type = "answer"
  THEN <<"answers/answer-key-", IF f.date = "" THEN Today ELSE f.date, ".txt">>
  ELSE <<"questions/", f.filename>>

\* C10: the file check and the file upsert of a request use the path
\* answers/answer-key-{date}.txt when the type field is exactly answer and
\* questions/{filename} for every other type, absent included, and the success
\* response returns that path as github.path.
C10_PathDerivation ==
  \A r \in Requests :
    /\ \A i \in CallsOf(r, "fileCheck") \cup CallsOf(r, "filePut") :
         calls[r][i].path = StatedPath(input[r])
    /\ Succeeded(r) => Response(r).github.path = StatedPath(input[r])

C10_Witness ==
  \E r \in Requests :
    /\ Succeeded(r) /\ input[r].type = "Answer"
    /\ Response(r).github.path = <<"questions/", "q2.pdf">>
    /\ \E i \in CallsOf(r, "fileCheck") : calls[r][i].path = <<"questions/", "q2.pdf">>

\* ---------------------------------------------------------------- order of calls
\* the place of a call in the order of one request
Rank(op) ==
  CASE op = "repoCheck" -> 1
    [] op = "repoCreate" -> 2
    [] op = "fileCheck" -> 3
    [] op = "filePut" -> 4
    [] op = "webhook" -> 5

CallOk(c) == c.kind # "throw" /\ c.status \in 200..299

\* C11: the calls of one request follow the order repository-check,
\* repository-create, file-check, file-upsert, webhook-forward, and a call is
\* issued only when the one before it has completed: the first call is the
\* repository check, the creation directly follows the check, the file check
\* directly follows a repository check or a creation that reported success, the
\* upsert directly follows the file check, the webhook directly follows the
\* upsert, and a request whose creation failed issues no later call.
C11_CallOrder ==
  \A r \in Requests :
    \A i \in DOMAIN calls[r] :
      LET c == calls[r][i] IN
      /\ i = 1 => c.op = "repoCheck"
      /\ i > 1 =>
           LET b == calls[r][i - 1] IN
           /\ Rank(b.op) < Rank(c.op)
           /\ c.op = "repoCreate" => b.op = "repoCheck"
           /\ c.op = "fileCheck" => b.op \in {"repoCheck", "repoCreate"} /\ CallOk(b)
           /\ c.op = "filePut" => b.op = "fileCheck"
           /\ c.op = "webhook" => b.op = "filePut"
           /\ ~(b.op = "repoCreate" /\ ~CallOk(b))

C11_Witness ==
  \E r \in Requests :
    /\ Len(calls[r]) = 5
    /\ [i \in 1..5 |-> calls[r][i].op] =
         <<"repoCheck", "repoCreate", "fileCheck", "filePut", "webhook">>

\* C12: a webhook POST is issued only by an answer upload, with a webhook URL
\* configured, after the file upsert of the same request was accepted.
C12_WebhookOnlyAfterAnswerUpload ==
  \A r \in Requests :
    \A i \in CallsOf(r, "webhook") :
      /\ input[r].type = "answer"
      /\ GOOGLE_SCRIPT_URL
      /\ \E j \in CallsOf(r, "filePut") : j < i /\ CallOk(calls[r][j])

C12_Witness ==
  \E r \in Requests :
    /\ CallsOf(r, "webhook") # {}
    /\ input[r].type = "answer" /\ GOOGLE_SCRIPT_URL /\ PutAccepted(r)

Ops == {"repoCheck", "repoCreate", "fileCheck", "filePut", "webhook"}

\* C13: a request issues each of the five calls at most once, whatever the
\* outcome of the call.
C13_SingleAttempt ==
  \A r \in Requests : \A op \in Ops : Cardinality(CallsOf(r, op)) <= 1

C13_Witness ==
  \E r \in Requests :
    /\ Done(r)
    /\ \E i \in CallsOf(r, "fileCheck") : calls[r][i].kind = "throw"
    /\ \E i \in CallsOf(r, "filePut") : calls[r][i].kind = "fault"
    /\ Len(calls[r]) = 3

\* C14: the creation POST is issued exactly when the existence check did not
\* report success: after a success answer no creation is issued, and after
\* any other status or a transport error the creation is the next call; the
\* failed check does not end the request.
C14_CreateIffCheckFailed ==
  \A r \in Requests :
    /\ CallsOf(r, "repoCreate") # {} =>
         \E i \in CallsOf(r, "repoCheck") : ~CallOk(calls[r][i])
    /\ \A i \in CallsOf(r, "repoCheck") :
         IF CallOk(calls[r][i])
         THEN CallsOf(r, "repoCreate") = {}
         ELSE \/ Len(calls[r]) = i /\ pc[r] = "repoCreate" /\ responses[r] = <<>>
              \/ Len(calls[r]) > i /\ calls[r][i + 1].op = "repoCreate"

C14_Witness ==
  \E r \in Requests :
    /\ Succeeded(r)
    /\ \E i \in CallsOf(r, "repoCheck") : calls[r][i].kind = "throw"
    /\ \E i \in CallsOf(r, "repoCreate") : calls[r][i].status = 201

\* C15: after a file check that failed in transport or returned a
\* non-success status, 404 or another, the PUT is the next call of the request
\* and it carries no revisionId.
C15_FailedFileCheckStillPuts ==
  \A r \in Requests :
    \A i \in CallsOf(r, "fileCheck") :
      ~CallOk(calls[r][i]) =>
        \/ Len(calls[r]) = i /\ pc[r] = "filePut" /\ sha[r] = 0 /\ responses[r] = <<>>
        \/ /\ Len(calls[r]) > i
           /\ calls[r][i + 1].op = "filePut"
           /\ calls[r][i + 1].sha = 0

C15_Witness ==
  \E r \in Requests :
    \E i \in CallsOf(r, "fileCheck") :
      /\ calls[r][i].kind = "throw"
      /\ calls[r][i].rev # 0
      /\ Len(calls[r]) > i
      /\ calls[r][i + 1].op = "filePut" /\ calls[r][i + 1].sha = 0

\* ---------------------------------------------------------------- concurrency
\* every call of request r was answered by the host from its state
AllHost(r) ==
  /\ form[r] # NoForm
  /\ \A i \in DOMAIN calls[r] : calls[r][i].kind = "host"

\* the creations of the repository the host has accepted
AcceptedCreates ==
  {c \in {<<r, i>> : r \in Requests, i \in 1..5} :
     /\ c[2] \in CallsOf(c[1], "repoCreate")
     /\ CallOk(calls[c[1]][c[2]])}

\* request r runs alone: every other request has not started, or responded
\* before r started, or started after r responded
Sequential(r) ==
  \A q \in Requests \ {r} :
    pc[q] = "idle" \/ q \in startedAfter[r] \/ r \in startedAfter[q]

\* the repository was created by another request between the check and the
\* creation of request r, and the host refused the creation
CreateRaceLost(r) ==
  /\ Failed(r)
  /\ Len(calls[r]) = 2
  /\ calls[r][1].op = "repoCheck" /\ ~calls[r][1].repo
  /\ calls[r][2].op = "repoCreate" /\ calls[r][2].repo
  /\ calls[r][2].status = 422

\* the path was written by another request between the file check and the PUT
\* of request r, and the host refused the PUT
WriteRaceLost(r) ==
  /\ Failed(r)
  /\ \E i \in CallsOf(r, "filePut") :
       /\ i = Len(calls[r])
       /\ calls[r][i].status \in {409, 422}
       /\ calls[r][i - 1].op = "fileCheck"
       /\ calls[r][i - 1].rev # calls[r][i].rev

\* C16 as stated: with no failing call, every request ends as it does when
\* the two requests run one after the other, which is with the success
\* response (C16_RaceLoserFails checks that a request running alone succeeds),
\* and the repository is created once.
C16_SameAsSequential ==
  /\ \A r \in Requests : (Done(r) /\ AllHost(r)) => Succeeded(r)
  /\ Cardinality(AcceptedCreates) <= 1

\* C16 as amended: with no failing call, the repository is created at most
\* once; a request that runs alone ends with the success response; a request
\* interleaved with another ends with the success response or with the failure
\* response after losing the race for the creation of the repository or for
\* the write of its path.
C16_RaceLoserFails ==
  /\ Cardinality(AcceptedCreates) <= 1
  /\ \A r \in Requests :
       (Done(r) /\ AllHost(r)) =>
         /\ Succeeded(r) \/ CreateRaceLost(r) \/ WriteRaceLost(r)
         /\ Sequential(r) => Succeeded(r)

C16_Witness ==
  \E r, q \in Requests :
    /\ r # q /\ AllHost(r) /\ AllHost(q)
    /\ CreateRaceLost(r)
    /\ Succeeded(q)
    /\ \E i \in CallsOf(q, "repoCreate") : calls[q][i].status = 201

\* C17: a request whose PUT meets another revision of the path than its file
\* check met (another request wrote the path in between) has its PUT refused,
\* ends with the failure response (status 500) and issues no second read and
\* no second PUT.
C17_NoLostUpdate ==
  \A r \in Requests :
    \A i \in CallsOf(r, "filePut") : \A j \in CallsOf(r, "fileCheck") :
      calls[r][j].rev # calls[r][i].rev =>
        /\ ~CallOk(calls[r][i])
        /\ Failed(r)
        /\ Len(calls[r]) = i
        /\ Cardinality(CallsOf(r, "fileCheck")) = 1
        /\ Cardinality(CallsOf(r, "filePut")) = 1

C17_Witness ==
  \E r, q \in Requests :
    /\ r # q /\ Succeeded(q) /\ Failed(r)
    /\ filePath[r] = filePath[q]
    /\ \E i \in CallsOf(r, "filePut") :
         /\ calls[r][i].status = 409
         /\ calls[r][i].sha # 0
         /\ calls[r][i - 1].rev = calls[r][i].sha
         /\ calls[r][i].rev = calls[r][i].sha + 1
    /\ Response(r).message = <<"GitHub API error: ", "409">>
    /\ stored[form[q].className, filePath[q]] = form[q].content

\* C18: a success response is returned only by a request whose repository
\* check or repository creation reported success and whose PUT at the derived
\* path was accepted by the host.
C18_SuccessMeansWritten ==
  \A r \in Requests :
    Succeeded(r) =>
      /\ \E i \in CallsOf(r, "repoCheck") \cup CallsOf(r, "repoCreate") :
           CallOk(calls[r][i])
      /\ \E i \in CallsOf(r, "filePut") :
           /\ CallOk(calls[r][i])
           /\ calls[r][i].path = StatedPath(input[r])

C18_Witness ==
  \E r \in Requests :
    /\ Succeeded(r)
    /\ \E i \in CallsOf(r, "repoCreate") : calls[r][i].status = 201
    /\ \E i \in CallsOf(r, "filePut") : calls[r][i].status = 201

====
